---- MODULE Spec2Model ----
(***************************************************************************)
(* Model of glazier/lib/download.py: BaseDownloader (DownloadFile,         *)
(* DownloadFileTemp, CheckUrl, VerifyShaHash, PrintDebugInfo, _OpenStream, *)
(* _AttemptResource, _StreamToDisk, _Validate, _SetUrl, _StoreDebugInfo)   *)
(* and the module's functions IsLocal, IsRemote, Transform, PathCompile.   *)
(*                                                                         *)
(* Text is a sequence of one-character strings.  The downloader is a       *)
(* single-threaded blocking state machine; pc is its position, and every   *)
(* blocking call (urlopen, sleep, open, read) ends one step.  Spec is the  *)
(* downloader; FunctionsSpec is Transform and PathCompile called with      *)
(* every build_info of the model.                                          *)
(***************************************************************************)
EXTENDS Integers, Sequences, FiniteSets, TLC

(* ------------------------------ bounds --------------------------------- *)

\* Largest number of connection cycles of one _OpenStream call the model follows.
MaxAttempts == 3

\* Largest number of non-empty chunks one stream delivers.
MaxReads == 2

(* ------------------------- program constants --------------------------- *)

CHUNK_BYTE_SIZE == 65536

\* Seconds _AttemptResource sleeps before a further attempt.
SLEEP == 20

\* Default of _StreamToDisk's max_retries parameter, which no caller overrides.
STREAM_MAX_RETRIES == 5

\* Default of _OpenStream's status_codes (status_codes or [200]).
DEFAULT_STATUS_CODES == <<200>>

REDIRECT_CODES == {302}

\* Bytes VerifyShaHash asks of the file per read.
VERIFY_CHUNK_SIZE == 4194304

(* ------------------------------- text ---------------------------------- *)

\* "https://s/f": a remote URL under the configured server.
UrlServer == <<"h","t","t","p","s",":","/","/","s","/","f">>

\* "https://o/f": a remote URL on another host.
UrlOther == <<"h","t","t","p","s",":","/","/","o","/","f">>

\* " https://s/f ": the same with surrounding blanks.
UrlPadded == <<" ","h","t","t","p","s",":","/","/","s","/","f"," ">>

\* "HTTP:f": a remote scheme (upper case) and no host component.
UrlNoHost == <<"H","T","T","P",":","f">>

\* "C:/f": a drive-letter path.
UrlDrive == <<"C",":","/","f">>

\* The locators callers pass.
Urls == {UrlServer, UrlOther, UrlPadded, UrlNoHost, UrlDrive}

\* What geturl() of a redirecting response may report.
RedirectTargets == {UrlOther}

\* FLAGS.config_server: "https://s".
ConfigServer == <<"h","t","t","p","s",":","/","/","s">>

Letters == {"h","t","p","s","o","f","g","H","T","P","C"}

Lower(c) ==
    CASE c = "H" -> "h"
      [] c = "T" -> "t"
      [] c = "P" -> "p"
      [] c = "C" -> "c"
      [] OTHER -> c

LowerText(s) == [i \in 1..Len(s) |-> Lower(s[i])]

StartsWith(s, p) == Len(s) >= Len(p) /\ SubSeq(s, 1, Len(p)) = p

\* s[n:] of Python: the text after its first n characters.
Drop(s, n) == SubSeq(s, n + 1, Len(s))

Whitespace == {" "}

RECURSIVE LStrip(_)
LStrip(s) == IF s # <<>> /\ s[1] \in Whitespace THEN LStrip(Tail(s)) ELSE s

RECURSIVE RStrip(_)
RStrip(s) ==
    IF s # <<>> /\ s[Len(s)] \in Whitespace
    THEN RStrip(SubSeq(s, 1, Len(s) - 1))
    ELSE s

\* str.strip()
Strip(s) == RStrip(LStrip(s))

\* Position of the first element of s that is in set cs, or Len(s) + 1.
RECURSIVE FindFrom(_, _, _)
FindFrom(s, cs, i) ==
    IF i > Len(s) THEN Len(s) + 1
    ELSE IF s[i] \in cs THEN i
    ELSE FindFrom(s, cs, i + 1)

\* re.match(r'[A-Z,a-z]\:', string): a letter or a comma, then a colon.
IsLocal(s) == Len(s) >= 2 /\ s[1] \in Letters \cup {","} /\ s[2] = ":"

\* A pattern that takes any leading letters and a colon for a remote scheme.
IsRemoteAnyScheme(s) ==
    LET colon == FindFrom(s, {":"}, 1)
    IN  colon > 1 /\ colon <= Len(s) /\ \A i \in 1..(colon - 1) : s[i] \in Letters

\* re.match(r'http(s)?:', string, re.I)
IsRemote(s) ==
    \/ StartsWith(LowerText(s), <<"h","t","t","p",":">>)
    \/ StartsWith(LowerText(s), <<"h","t","t","p","s",":">>)

\* urllib.parse.urlparse(url).netloc: drop a leading scheme (letters up to the
\* first colon); the host is what follows a leading "//" up to "/", "?" or "#".
NetLoc(s) ==
    LET colon == FindFrom(s, {":"}, 1)
        hasScheme == /\ colon > 1
                     /\ colon <= Len(s)
                     /\ \A i \in 1..(colon - 1) : s[i] \in Letters
        rest == IF hasScheme THEN Drop(s, colon) ELSE s
    IN  IF StartsWith(rest, <<"/","/">>)
        THEN SubSeq(rest, 3, FindFrom(rest, {"/","?","#"}, 3) - 1)
        ELSE <<>>

\* beyondcorp.GetSignedUrl(path): "https://g/" followed by the path it was given.
GetSignedUrl(path) == <<"h","t","t","p","s",":","/","/","g","/">> \o path

\* url[url.startswith(config_server) and len(config_server):]
StripConfigServer(u) ==
    LET config_server == ConfigServer \o <<"/">>
    IN  IF StartsWith(u, config_server) THEN Drop(u, Len(config_server)) ELSE u

\* _SetUrl without the test of FLAGS.use_signed_url.
SetUrlAlwaysSigned(u, use_signed_url) == GetSignedUrl(StripConfigServer(u))

\* _SetUrl's value when GetSignedUrl does not raise.
SetUrl(u, use_signed_url) ==
    IF ~use_signed_url THEN u ELSE GetSignedUrl(StripConfigServer(u))


\* Decimal digits of a header value.
DigitValue(c) ==
    CASE c = "0" -> 0 [] c = "1" -> 1 [] c = "2" -> 2 [] c = "3" -> 3
      [] c = "5" -> 5 [] c = "6" -> 6 [] c = "7" -> 7 [] OTHER -> -1

RECURSIVE DecimalValue(_, _)
DecimalValue(s, acc) ==
    IF s = <<>> THEN acc ELSE DecimalValue(Tail(s), 10 * acc + DigitValue(s[1]))

\* int(text.strip()): the number, or ValueError when the text is empty or has
\* a character that is no digit.
ParseInt(text) ==
    LET t == Strip(text)
        ok == t # <<>> /\ \A i \in 1..Len(t) : DigitValue(t[i]) >= 0
    IN  [ok |-> ok, val |-> IF ok THEN DecimalValue(t, 0) ELSE 0]

\* Content-Length values a response may carry: "0", " 1", "2", "65536" and
\* the unparseable "x".
HeaderTexts == { <<"0">>, <<" ","1">>, <<"2">>, <<"6","5","5","3","6">>, <<"x">> }

\* The Content-Length header of a response: absent, or present with a text.
Headers ==
    { [header |-> "absent", clen |-> <<>>] }
    \cup { [header |-> "present", clen |-> t] : t \in HeaderTexts }

\* Sizes of the non-empty chunks read(CHUNK_BYTE_SIZE) may return.
ChunkSizes == {1, CHUNK_BYTE_SIZE}

\* Status codes a server answers with.
Codes == {200, 302, 404}

\* max_retries values callers pass; negative is unlimited.
RetryArgs == {-1, 0, 1, 2}

\* status_codes values CheckUrl's callers pass.
StatusCodeArgs == { <<>>, <<200>>, <<302>>, <<200, 404>> }

\* show_progress as a caller gives it; "omitted" takes the parameter default.
ShowArgs == {"omitted", "True", "False"}

InList(x, l) == \E i \in 1..Len(l) : l[i] = x

(* ----------------------- Transform / PathCompile ----------------------- *)

\* An Optional[Text] argument: None, or a text.
None == [some |-> FALSE, text |-> <<>>]
Some(t) == [some |-> TRUE, text |-> t]

\* Python's truth value of an Optional[Text]: None and '' are false.
Truthy(x) == x.some /\ x.text # <<>>

\* s.lstrip('/')
RECURSIVE LStripSlash(_)
LStripSlash(s) == IF s # <<>> /\ s[1] = "/" THEN LStripSlash(Tail(s)) ELSE s

\* s.rstrip('/')
RECURSIVE RStripSlash(_)
RStripSlash(s) ==
    IF s # <<>> /\ s[Len(s)] = "/" THEN RStripSlash(SubSeq(s, 1, Len(s) - 1)) ELSE s

\* s.strip('/')
StripSlash(s) == RStripSlash(LStripSlash(s))

\* '/'.join(parts)
RECURSIVE JoinSlash(_)
JoinSlash(parts) ==
    IF parts = <<>> THEN <<>>
    ELSE IF Len(parts) = 1 THEN parts[1]
    ELSE parts[1] \o <<"/">> \o JoinSlash(Tail(parts))

\* PathCompile(build_info, file_name, base); bi.release, bi.conf and bi.binary
\* are what ReleasePath(), ActiveConfigPath() and BinaryPath() answer.
PathCompile(bi, file_name, base) ==
    LET path0 == RStripSlash(IF Truthy(base) THEN base.text ELSE bi.release)
        path1 == IF bi.conf # <<>>
                 THEN path0 \o <<"/">> \o StripSlash(JoinSlash(bi.conf))
                 ELSE path0
    IN  IF Truthy(file_name)
        THEN path1 \o <<"/">> \o LStripSlash(file_name.text)
        ELSE path1

\* re.sub(r'(?<!\\)M', repl, s) from position i on: every M that no backslash
\* precedes becomes repl.  The texts substituted here hold no backslash, so
\* re.sub inserts them as they are.
RECURSIVE ReSubUnescaped(_, _, _, _)
ReSubUnescaped(s, i, m, repl) ==
    IF i > Len(s) THEN <<>>
    ELSE (IF s[i] = m /\ (i = 1 \/ s[i - 1] # "\\") THEN repl ELSE <<s[i]>>)
             \o ReSubUnescaped(s, i + 1, m, repl)

\* re.sub(r'\\M', 'M', s) from position i on: every backslash followed by M
\* becomes M, matches found left to right without overlap.
RECURSIVE ReSubEscaped(_, _, _)
ReSubEscaped(s, i, m) ==
    IF i > Len(s) THEN <<>>
    ELSE IF s[i] = "\\" /\ i < Len(s) /\ s[i + 1] = m
         THEN <<m>> \o ReSubEscaped(s, i + 2, m)
         ELSE <<s[i]>> \o ReSubEscaped(s, i + 1, m)

\* Transform(string, build_info): its four substitutions in order.
Transform(string, bi) ==
    LET s1 == ReSubUnescaped(string, 1, "#", PathCompile(bi, None, None) \o <<"/">>)
        s2 == ReSubEscaped(s1, 1, "#")
        s3 == ReSubUnescaped(s2, 1, "@", bi.binary)
    IN  ReSubEscaped(s3, 1, "@")

\* What ReleasePath() may answer: "r", "r/", "u@r".
ReleasePaths == { <<"r">>, <<"r","/">>, <<"u","@","r">> }

\* What ActiveConfigPath() may answer: [], ['a'], ['a','b'], [''], ['/'],
\* ['a/','/b'].
ConfigPaths ==
    { <<>>, << <<"a">> >>, << <<"a">>, <<"b">> >>, << <<>> >>, << <<"/">> >>,
      << <<"a","/">>, <<"/","b">> >> }

\* What BinaryPath() may answer: "b", "b/".
BinaryPaths == { <<"b">>, <<"b","/">> }

BuildInfos ==
    [release : ReleasePaths, conf : ConfigPaths, binary : BinaryPaths]

\* file_name arguments: None, '', 'f', '/f', '/'.
FileNames == { None, Some(<<>>), Some(<<"f">>), Some(<<"/","f">>), Some(<<"/">>) }

\* base arguments: None, 'x', 'x/'.
Bases == { None, Some(<<"x">>), Some(<<"x","/">>) }

\* Templates given to Transform: #f, @f, \#, \@, #@, a, \\#, @\@.
Templates ==
    { <<"#","f">>, <<"@","f">>, <<"\\","#">>, <<"\\","@">>, <<"#","@">>,
      <<"a">>, <<"\\","\\","#">>, <<"@","\\","@">> }

(* ---------------------------- VerifyShaHash ---------------------------- *)

\* Contents of the file VerifyShaHash is pointed at, as bytes.
FileContents == { <<>>, <<0>>, <<0, 1>>, <<1, 0>> }

\* hashlib's sha256 hexdigest of the bytes fed to it: lower-case hexadecimal
\* text determined by the bytes, standing for the 64 digits of the real one.
Sha256Hex(bytes) == [i \in 1..Len(bytes) |-> IF bytes[i] = 0 THEN "c" ELSE "1"]

\* expected arguments: "c1", "C1", "1c", "c", "".
Expecteds == { <<"c","1">>, <<"C","1">>, <<"1","c">>, <<"c">>, <<>> }

\* The comparison of lines 512-515 without expected.lower().
HashMatchesCaseSensitive(file_hash, expected) == file_hash = expected

\* Lines 512-515: file_hash == expected.lower().
HashMatches(file_hash, expected) == file_hash = LowerText(expected)


(* ------------------------------ state ---------------------------------- *)

VARIABLES
    pc,            \* position: idle, cycle, machine, length, open, read, hash, done
    op,            \* the public operation in progress
    arg_url,       \* the url the operation was called with
    url,           \* _OpenStream's working url
    max_retries,   \* max_retries as passed to _OpenStream
    status_codes,  \* status_codes as passed to _OpenStream
    show_progress, \* show_progress as the caller gave it
    default_show_progress, \* self._default_show_progress
    bc,            \* what CheckBeyondCorp() answered in this operation
    use_signed_url, \* FLAGS.use_signed_url as _SetUrl read it
    attempt,       \* _OpenStream's attempt
    file_stream,   \* _OpenStream's / _StreamToDisk's file_stream
    cur,           \* the sub-attempts of the current connection cycle
    counts,        \* tallies of the calls made so far by the function in progress
                   \* (urlopen calls, sleeps and seconds slept, cycles without a
                   \* response, cycles lost to URLError twice, Copy and
                   \* CheckBeyondCorp calls, chunks read, progress reports)
    handles,       \* per stream obtained, in order: how often it was closed
    st_attempt,    \* _StreamToDisk's attempt
    total_size,    \* _StreamToDisk's total_size
    bytes_so_far,  \* _StreamToDisk's bytes_so_far
    dest,          \* the file at self._save_location
    debug_info,    \* keys of self._debug_info
    result,        \* how the operation ended
    err,           \* message of the DownloadError raised, if any
    verify,        \* VerifyShaHash's frame: the file, expected, sha_object
    build_info,    \* what the build_info passed to Transform / PathCompile answers
    call           \* the last call of Transform / PathCompile and its value

vars == << pc, op, arg_url, url, max_retries, status_codes, show_progress,
           default_show_progress, bc, use_signed_url, attempt, file_stream, cur, counts,
           handles, st_attempt, total_size, bytes_so_far, dest, debug_info,
           result, err, verify, build_info, call >>

\* file_stream = None
NoStream == [open |-> FALSE, code |-> 0, geturl |-> <<>>, header |-> "unread", clen |-> <<>>]

NoCycle == [first |-> "none", second |-> "none", policy |-> "none"]

ZeroCounts ==
    [ net |-> 0, sleeps |-> 0, slept |-> 0, failed |-> 0, transport |-> 0,
      copies |-> 0, bc_checks |-> 0, reads |-> 0, reports |-> 0 ]

NoFile == [exists |-> FALSE, size |-> 0, touched |-> FALSE]

\* No VerifyShaHash call in progress.
NoVerify ==
    [ content |-> <<>>, expected |-> <<>>, pos |-> 0, sha |-> <<>>,
      chunks |-> 0, ioerror |-> FALSE ]

\* No build_info at hand, and no call of Transform / PathCompile made.
NoBuildInfo == [release |-> <<>>, conf |-> <<>>, binary |-> <<>>]

NoCall ==
    [ fn |-> "none", string |-> <<>>, file_name |-> None, base |-> None,
      value |-> <<>> ]

\* BaseDownloader.__init__, for either value of show_progress.
Constructed ==
    /\ pc = "idle"
    /\ op = "none"
    /\ arg_url = <<>>
    /\ url = <<>>
    /\ max_retries = 0
    /\ status_codes = <<>>
    /\ show_progress = "omitted"
    /\ default_show_progress \in BOOLEAN
    /\ bc = FALSE
    /\ use_signed_url = FALSE
    /\ attempt = 0
    /\ file_stream = NoStream
    /\ cur = NoCycle
    /\ counts = ZeroCounts
    /\ handles = <<>>
    /\ st_attempt = 0
    /\ total_size = 0
    /\ bytes_so_far = 0
    /\ dest = NoFile
    /\ debug_info = {}
    /\ result = "none"
    /\ err = "none"
    /\ verify = NoVerify

\* The state the downloader's operations start from.
Init ==
    /\ Constructed
    /\ build_info = NoBuildInfo
    /\ call = NoCall


(* ---------------------------- _OpenStream ------------------------------ *)

\* _AttemptResource with the last comparison off by one (attempt <= max_retries).
AttemptResourceOffByOne(n, retries) ==
    IF retries < 0 THEN "sleep"
    ELSE IF n <= retries THEN "sleep"
    ELSE "raise"

\* _AttemptResource without its branch for a negative max_retries.
AttemptResourceNoUnlimited(n, retries) ==
    IF n < retries THEN "sleep" ELSE "raise"

\* _AttemptResource: sleep and let the caller loop, or raise DownloadError.
AttemptResource(n, retries) ==
    IF retries < 0 THEN "sleep"
    ELSE IF n < retries THEN "sleep"
    ELSE "raise"

\* status_codes or [200]
Acceptable(codes) == IF codes = <<>> THEN DEFAULT_STATUS_CODES ELSE codes

\* Lines 256-265 with the redirect test ahead of the acceptable-codes test.
CycleEndRedirectFirst(fs, n, u, retries, codes) ==
    IF fs.open
    THEN IF fs.code \in REDIRECT_CODES
         THEN [act |-> AttemptResource(n, retries), url |-> fs.geturl, policy |-> "invoked"]
         ELSE IF InList(fs.code, Acceptable(codes))
         THEN [act |-> "return", url |-> u, policy |-> "none"]
         ELSE [act |-> "raise_code", url |-> u, policy |-> "none"]
    ELSE [act |-> AttemptResource(n, retries), url |-> u, policy |-> "invoked"]

\* Lines 256-265 of _OpenStream: what a cycle does once its urlopen calls are
\* over, given file_stream (a stream of an earlier cycle when this one got none).
CycleEnd(fs, n, u, retries, codes) ==
    IF fs.open
    THEN IF InList(fs.code, Acceptable(codes))
         THEN [act |-> "return", url |-> u, policy |-> "none"]
         ELSE IF fs.code \in REDIRECT_CODES
         THEN [act |-> AttemptResource(n, retries), url |-> fs.geturl, policy |-> "invoked"]
         ELSE [act |-> "raise_code", url |-> u, policy |-> "none"]
    ELSE [act |-> AttemptResource(n, retries), url |-> u, policy |-> "invoked"]

\* What one urlopen call may do: raise URLError, raise HTTPError, or return a
\* response.  geturl() is kept for redirecting responses only, the ones whose
\* url the program uses for more than logging; it may be any redirect target.
UrlopenOutcomes ==
    { [kind |-> "URLError", code |-> 0, geturl |-> <<>>],
      [kind |-> "HTTPError", code |-> 0, geturl |-> <<>>] }
    \cup { [kind |-> "stream", code |-> c, geturl |-> <<>>] : c \in Codes \ REDIRECT_CODES }
    \cup { [kind |-> "stream", code |-> c, geturl |-> t] : c \in REDIRECT_CODES, t \in RedirectTargets }

NewStream(out) ==
    [open |-> TRUE, code |-> out.code, geturl |-> out.geturl, header |-> "unread", clen |-> <<>>]

\* How an operation ends when DownloadError is raised in it: CheckUrl catches
\* it and returns False, the download operations let it through.
Raised(o) == IF o = "CheckUrl" THEN "False" ELSE "DownloadError"

\* The state after the cycle's last urlopen call: fs is file_stream, got tells
\* whether this cycle obtained it, cyc is the cycle's record, c the tallies.
EndCycle(fs, got, cyc, c) ==
    LET e == CycleEnd(fs, attempt', url, max_retries, status_codes)
        c1 == [c EXCEPT !.failed = @ + (IF got THEN 0 ELSE 1),
                        !.transport = @ + (IF cyc.first = "URLError" /\ cyc.second = "URLError"
                                           THEN 1 ELSE 0),
                        !.sleeps = @ + (IF e.act = "sleep" THEN 1 ELSE 0),
                        !.slept = @ + (IF e.act = "sleep" THEN SLEEP ELSE 0)]
    IN  /\ file_stream' = fs
        /\ handles' = IF got THEN Append(handles, 0) ELSE handles
        /\ url' = e.url
        /\ cur' = [cyc EXCEPT !.policy = e.policy]
        /\ counts' = c1
        /\ CASE e.act = "return" ->
                  IF op = "CheckUrl"
                  THEN pc' = "done" /\ result' = "True" /\ err' = "none"
                  ELSE pc' = "length" /\ result' = "none" /\ err' = "none"
             [] e.act = "sleep" ->
                  pc' = "cycle" /\ result' = "none" /\ err' = "none"
             [] e.act = "raise" ->
                  pc' = "done" /\ result' = Raised(op) /\ err' = "Failed to reach file download"
             [] e.act = "raise_code" ->
                  pc' = "done" /\ result' = Raised(op) /\ err' = "Invalid return code"

\* One cycle of _OpenStream's loop up to the end of the default-context
\* urlopen (lines 234-245), and the rest of the cycle unless URLError was raised.
\* With or without cafile (winpe.check_winpe()) it is one urlopen call.
OpenDefault ==
    /\ pc = "cycle"
    /\ attempt < MaxAttempts
    /\ attempt' = attempt + 1
    /\ \E out \in UrlopenOutcomes :
         LET cyc == [first |-> out.kind, second |-> "none", policy |-> "none"]
             c == [counts EXCEPT !.net = @ + 1]
         IN  IF out.kind = "URLError"
             THEN /\ pc' = "machine"
                  /\ cur' = cyc
                  /\ counts' = c
                  /\ UNCHANGED <<file_stream, handles, url, result, err>>
             ELSE EndCycle(IF out.kind = "stream" THEN NewStream(out) ELSE file_stream,
                           out.kind = "stream", cyc, c)
    /\ UNCHANGED <<verify, build_info, call, op, arg_url, max_retries, status_codes, show_progress,
                   default_show_progress, bc, use_signed_url, st_attempt,
                   total_size, bytes_so_far, dest, debug_info>>

\* The machine-context urlopen of the cycle (lines 246-255) and the rest of it.
OpenMachine ==
    /\ pc = "machine"
    /\ attempt' = attempt
    /\ \E out \in UrlopenOutcomes :
         EndCycle(IF out.kind = "stream" THEN NewStream(out) ELSE file_stream,
                  out.kind = "stream",
                  [cur EXCEPT !.second = out.kind],
                  [counts EXCEPT !.net = @ + 1])
    /\ UNCHANGED <<verify, build_info, call, op, arg_url, max_retries, status_codes, show_progress,
                   default_show_progress, bc, use_signed_url, st_attempt,
                   total_size, bytes_so_far, dest, debug_info>>


(* ------------------------- public operations --------------------------- *)

\* Begin of an operation that creates its destination file at once.
BeginCreatingDestination(o, u, sp) ==
    /\ pc = "idle"
    /\ op' = o
    /\ arg_url' = u
    /\ show_progress' = sp
    /\ attempt' = 0
    /\ file_stream' = NoStream
    /\ cur' = NoCycle
    /\ handles' = <<>>
    /\ st_attempt' = 0
    /\ total_size' = 0
    /\ bytes_so_far' = 0
    /\ dest' = [exists |-> TRUE, size |-> 0, touched |-> TRUE]
    /\ UNCHANGED <<default_show_progress, debug_info, verify, build_info, call>>

\* What every operation starts from: nothing of an earlier operation is kept
\* but self._debug_info and self._default_show_progress.
Begin(o, u, sp) ==
    /\ pc = "idle"
    /\ op' = o
    /\ arg_url' = u
    /\ show_progress' = sp
    /\ attempt' = 0
    /\ file_stream' = NoStream
    /\ cur' = NoCycle
    /\ handles' = <<>>
    /\ st_attempt' = 0
    /\ total_size' = 0
    /\ bytes_so_far' = 0
    /\ dest' = NoFile
    /\ UNCHANGED <<default_show_progress, debug_info, verify, build_info, call>>

\* _OpenStream entering its loop without the test of lines 229-231.
EnterOpenStreamUnchecked(o, u, retries, codes) ==
    /\ url' = Strip(u)
    /\ max_retries' = retries
    /\ status_codes' = codes
    /\ pc' = "cycle" /\ result' = "none" /\ err' = "none"

\* _OpenStream up to its loop (lines 220-231), called with url u.
EnterOpenStream(o, u, retries, codes) ==
    /\ url' = Strip(u)
    /\ max_retries' = retries
    /\ status_codes' = codes
    /\ IF NetLoc(Strip(u)) = <<>>
       THEN pc' = "done" /\ result' = Raised(o) /\ err' = "Invalid remote server URL"
       ELSE pc' = "cycle" /\ result' = "none" /\ err' = "none"

\* Lines 310-313 / 339-342: consult the access-control collaborator, sign the
\* url and lift the retry limit when it is enabled, then open the stream.
\* GetSignedUrl may raise BCError, which _SetUrl turns into DownloadError.
OpenRemote(o, u, retries) ==
    \E enabled \in BOOLEAN, flag \in BOOLEAN, signing_fails \in BOOLEAN :
        \* the flag is read only when enabled, and signing only happens when set
        /\ ~enabled => ~flag
        /\ ~flag => ~signing_fails
        /\ bc' = enabled
        /\ use_signed_url' = flag
        /\ counts' = [ZeroCounts EXCEPT !.bc_checks = 1]
        /\ IF signing_fails
           THEN /\ pc' = "done"
                /\ result' = Raised(o)
                /\ err' = "BCError"
                /\ url' = <<>>
                /\ max_retries' = retries
                /\ status_codes' = <<>>
           ELSE EnterOpenStream(o,
                                IF enabled THEN SetUrl(u, flag) ELSE u,
                                IF enabled THEN -1 ELSE retries,
                                <<>>)

\* Lines 316-319: file_util.Copy, whose Error becomes DownloadError.
LocalCopy(o) ==
    \E copy_fails \in BOOLEAN :
        /\ bc' = FALSE
        /\ use_signed_url' = FALSE
        /\ counts' = [ZeroCounts EXCEPT !.copies = 1]
        /\ url' = <<>>
        /\ max_retries' = 0
        /\ status_codes' = <<>>
        /\ pc' = "done"
        /\ IF copy_fails
           THEN result' = Raised(o) /\ err' = "file_util.Error"
           ELSE result' = "None" /\ err' = "none"

DownloadFile ==
    \E u \in Urls, retries \in RetryArgs, sp \in ShowArgs :
        /\ Begin("DownloadFile", u, sp)
        /\ IF IsRemote(u)
           THEN OpenRemote("DownloadFile", u, retries)
           ELSE LocalCopy("DownloadFile")

\* Lines 336-338 take the name of a temporary file that close() removes at
\* once, so the destination starts out absent as in DownloadFile.
DownloadFileTemp ==
    \E u \in Urls, retries \in RetryArgs, sp \in ShowArgs :
        /\ Begin("DownloadFileTemp", u, sp)
        /\ OpenRemote("DownloadFileTemp", u, retries)

CheckUrl ==
    \E u \in Urls, codes \in StatusCodeArgs, retries \in RetryArgs :
        /\ Begin("CheckUrl", u, "omitted")
        /\ bc' = FALSE
        /\ use_signed_url' = FALSE
        /\ counts' = ZeroCounts
        /\ EnterOpenStream("CheckUrl", u, retries, codes)

(* --------------------------- _StreamToDisk ----------------------------- *)

\* show_progress as _StreamToDisk receives it: the caller's value, or the
\* default False of the operation's parameter (lines 292, 324).
ShowProgressParam(sp) == IF sp = "omitted" THEN "False" ELSE sp

\* Lines 429-431: progress.
Progress(default, sp) == IF sp # "None" THEN sp = "True" ELSE default

\* _StoreDebugInfo: the keys it writes.
StoreDebugInfo(fs, socket_error) ==
    (IF socket_error THEN {"socket_error"} ELSE {})
    \cup (IF fs.open THEN {"headers"} ELSE {})
    \cup {"current_time"}

\* The except clause of lines 455-460 that takes an exception raised in the
\* try block: socket.error and IOError both name OSError, so the first clause
\* takes either.
ExceptClause(exc) ==
    IF exc \in {"socket.error", "IOError"} THEN "socket.error" ELSE "none"

\* _Validate accepting a file at least as large as expected.
ValidateAtLeast(file, expected_size) ==
    IF ~file.exists THEN "Could not locate file"
    ELSE IF file.size < expected_size THEN "File size did not match"
    ELSE "none"

\* _Validate: the DownloadError it raises, or "none".
Validate(file, expected_size) ==
    IF ~file.exists THEN "Could not locate file"
    ELSE IF file.size # expected_size THEN "File size did not match"
    ELSE "none"

\* An exception of lines 444-454 reaching the except clauses.
Caught(exc) ==
    /\ pc' = "done"
    /\ result' = "DownloadError"
    /\ IF ExceptClause(exc) = "socket.error"
       THEN /\ debug_info' = debug_info \cup StoreDebugInfo(file_stream, TRUE)
            /\ err' = "Socket error during download"
       ELSE /\ debug_info' = debug_info
            /\ err' = "File location could not be opened for writing"

\* _StreamToDisk begins: _OpenStream's frame (attempt, url, status_codes) is
\* gone, and so is what was recorded about that call; the tallies start over.
StreamToDiskEntered ==
    /\ arg_url' = <<>>
    /\ url' = <<>>
    /\ status_codes' = <<>>
    /\ use_signed_url' = FALSE
    /\ attempt' = 0
    /\ cur' = NoCycle

\* One pass of the loop of lines 435-442: read Content-Length, which the
\* response fixes when its headers are first consulted.
ReadLength ==
    /\ pc = "length"
    /\ st_attempt' = st_attempt + 1
    /\ IF st_attempt = 0
       THEN StreamToDiskEntered
       ELSE UNCHANGED <<arg_url, url, status_codes, use_signed_url, attempt, cur>>
    /\ \E h \in Headers :
         LET c == IF st_attempt = 0
                  THEN [ZeroCounts EXCEPT !.bc_checks = counts.bc_checks]
                  ELSE counts
         IN
         /\ file_stream.header # "unread" =>
              h = [header |-> file_stream.header, clen |-> file_stream.clen]
         /\ file_stream' = [file_stream EXCEPT !.header = h.header, !.clen = h.clen]
         /\ IF h.header = "absent"
            THEN /\ total_size' = total_size
                 /\ IF AttemptResource(st_attempt + 1, STREAM_MAX_RETRIES) = "sleep"
                    THEN /\ pc' = "length"
                         /\ counts' = [c EXCEPT !.sleeps = @ + 1, !.slept = @ + SLEEP]
                         /\ result' = "none"
                         /\ err' = "none"
                    ELSE /\ pc' = "done"
                         /\ counts' = c
                         /\ result' = "DownloadError"
                         /\ err' = "Failed to reach server URL"
            ELSE /\ counts' = c
                 /\ IF ParseInt(h.clen).ok
                    THEN /\ total_size' = ParseInt(h.clen).val
                         /\ pc' = "open"
                         /\ result' = "none"
                         /\ err' = "none"
                    ELSE /\ total_size' = total_size
                         /\ pc' = "done"
                         /\ result' = "ValueError"
                         /\ err' = "none"
    /\ UNCHANGED <<verify, build_info, call, op, max_retries, show_progress, default_show_progress, bc,
                   handles, bytes_so_far, dest, debug_info>>

\* Line 445: open(self._save_location, 'wb'), which may raise IOError.
OpenDestination ==
    /\ pc = "open"
    /\ \E opens \in BOOLEAN :
         IF opens
         THEN /\ dest' = [exists |-> TRUE, size |-> 0, touched |-> TRUE]
              /\ pc' = "read"
              /\ UNCHANGED <<debug_info, result, err>>
         ELSE /\ dest' = dest
              /\ Caught("IOError")
    /\ UNCHANGED <<verify, build_info, call, op, arg_url, url, max_retries, status_codes, show_progress,
                   default_show_progress, bc, use_signed_url, attempt,
                   file_stream, cur, counts, handles, st_attempt, total_size,
                   bytes_so_far>>

\* file_stream.close()
Close(h) == [h EXCEPT ![Len(h)] = @ + 1]

\* One pass of the loop of lines 447-454; on the empty read, the rest of
\* _StreamToDisk (lines 461-462).
ReadChunk ==
    /\ pc = "read"
    /\ \/ \E n \in ChunkSizes :
            /\ counts.reads < MaxReads
            /\ bytes_so_far' = bytes_so_far + n
            /\ dest' = [dest EXCEPT !.size = @ + n]
            /\ counts' = [counts EXCEPT
                              !.reads = @ + 1,
                              !.reports = @ + (IF Progress(default_show_progress,
                                                           ShowProgressParam(show_progress))
                                               THEN 1 ELSE 0)]
            /\ UNCHANGED <<pc, handles, debug_info, result, err>>
       \/ /\ Caught("socket.error")
          /\ UNCHANGED <<bytes_so_far, dest, counts, handles>>
       \/ /\ pc' = "done"
          /\ LET e == Validate(dest, total_size)
             IN  IF e = "none"
                 THEN /\ handles' = Close(handles)
                      /\ result' = "None"
                      /\ err' = "none"
                      /\ debug_info' = debug_info
                 ELSE /\ handles' = handles
                      /\ result' = "DownloadError"
                      /\ err' = e
                      /\ debug_info' = debug_info \cup StoreDebugInfo(file_stream, FALSE)
          /\ UNCHANGED <<bytes_so_far, dest, counts>>
    /\ UNCHANGED <<verify, build_info, call, op, arg_url, url, max_retries, status_codes, show_progress,
                   default_show_progress, bc, use_signed_url, attempt,
                   file_stream, cur, st_attempt, total_size>>

\* Return on an instance that forgets its debug info between operations.
ReturnClearing ==
    /\ pc = "done"
    /\ pc' = "idle"
    /\ op' = "none"
    /\ arg_url' = <<>>
    /\ url' = <<>>
    /\ max_retries' = 0
    /\ status_codes' = <<>>
    /\ show_progress' = "omitted"
    /\ bc' = FALSE
    /\ use_signed_url' = FALSE
    /\ attempt' = 0
    /\ file_stream' = NoStream
    /\ cur' = NoCycle
    /\ counts' = ZeroCounts
    /\ handles' = <<>>
    /\ st_attempt' = 0
    /\ total_size' = 0
    /\ bytes_so_far' = 0
    /\ dest' = NoFile
    /\ result' = "none"
    /\ err' = "none"
    /\ verify' = NoVerify
    /\ debug_info' = {}
    /\ UNCHANGED <<default_show_progress, build_info, call>>

\* The operation is over and the caller has its result; the instance is idle.
Return ==
    /\ pc = "done"
    /\ pc' = "idle"
    /\ op' = "none"
    /\ arg_url' = <<>>
    /\ url' = <<>>
    /\ max_retries' = 0
    /\ status_codes' = <<>>
    /\ show_progress' = "omitted"
    /\ bc' = FALSE
    /\ use_signed_url' = FALSE
    /\ attempt' = 0
    /\ file_stream' = NoStream
    /\ cur' = NoCycle
    /\ counts' = ZeroCounts
    /\ handles' = <<>>
    /\ st_attempt' = 0
    /\ total_size' = 0
    /\ bytes_so_far' = 0
    /\ dest' = NoFile
    /\ result' = "none"
    /\ err' = "none"
    /\ verify' = NoVerify
    /\ UNCHANGED <<default_show_progress, debug_info, build_info, call>>

(* ------------------- VerifyShaHash / PrintDebugInfo -------------------- *)

\* What VerifyShaHash and PrintDebugInfo leave alone: they use nothing of the
\* instance but self._debug_info, which PrintDebugInfo reads.
InstanceUntouched ==
    UNCHANGED << arg_url, url, max_retries, status_codes, show_progress,
                 default_show_progress, bc, use_signed_url, attempt, file_stream,
                 cur, counts, handles, st_attempt, total_size, bytes_so_far,
                 dest, debug_info, err, build_info, call >>

\* VerifyShaHash up to the first read (lines 498-503): open(file_path, 'rb')
\* may raise IOError, which returns False.
VerifyShaHash ==
    /\ pc = "idle"
    /\ op' = "VerifyShaHash"
    /\ \E content \in FileContents, expected \in Expecteds, opens \in BOOLEAN :
         /\ verify' = [NoVerify EXCEPT !.content = content, !.expected = expected,
                                       !.ioerror = ~opens]
         /\ IF opens
            THEN pc' = "hash" /\ result' = "none"
            ELSE pc' = "done" /\ result' = "False"
    /\ InstanceUntouched

\* One pass of the loop of lines 504-508, and on the empty read the rest of
\* VerifyShaHash (lines 512-524).  f.read(4194304) returns what is left of the
\* file up to that many bytes; a read may also return fewer, or raise IOError.
ReadFile ==
    /\ pc = "hash"
    /\ LET left == Len(verify.content) - verify.pos
       IN  \/ \E n \in 1..(IF left < VERIFY_CHUNK_SIZE THEN left ELSE VERIFY_CHUNK_SIZE) :
                /\ verify' = [verify EXCEPT
                                  !.pos = @ + n,
                                  !.chunks = @ + 1,
                                  !.sha = @ \o SubSeq(verify.content,
                                                      verify.pos + 1, verify.pos + n)]
                /\ UNCHANGED <<pc, result>>
           \/ /\ verify' = [verify EXCEPT !.ioerror = TRUE]
              /\ pc' = "done"
              /\ result' = "False"
           \/ /\ left = 0
              /\ verify' = verify
              /\ pc' = "done"
              /\ result' = IF HashMatches(Sha256Hex(verify.sha), verify.expected)
                           THEN "True" ELSE "False"
    /\ UNCHANGED op
    /\ InstanceUntouched

\* PrintDebugInfo: prints the entries, if there are any.
PrintDebugInfo ==
    /\ pc = "idle"
    /\ op' = "PrintDebugInfo"
    /\ pc' = "done"
    /\ result' = "None"
    /\ UNCHANGED verify
    /\ InstanceUntouched

(* ---------------- calls of Transform and PathCompile ------------------- *)

\* The downloader takes no part in a call of the module's functions.
DownloaderUntouched ==
    UNCHANGED << pc, op, arg_url, url, max_retries, status_codes, show_progress,
                 default_show_progress, bc, use_signed_url, attempt, file_stream,
                 cur, counts, handles, st_attempt, total_size, bytes_so_far,
                 dest, debug_info, result, err, verify, build_info >>

\* A call PathCompile(build_info, file_name, base).
CallPathCompile ==
    /\ \E file_name \in FileNames, base \in Bases :
         call' = [ fn |-> "PathCompile", string |-> <<>>, file_name |-> file_name,
                   base |-> base,
                   value |-> PathCompile(build_info, file_name, base) ]
    /\ DownloaderUntouched

\* A call Transform(string, build_info).
CallTransform ==
    /\ \E string \in Templates :
         call' = [ fn |-> "Transform", string |-> string, file_name |-> None,
                   base |-> None, value |-> Transform(string, build_info) ]
    /\ DownloaderUntouched

Next ==
    \/ DownloadFile
    \/ DownloadFileTemp
    \/ CheckUrl
    \/ OpenDefault
    \/ OpenMachine
    \/ ReadLength
    \/ OpenDestination
    \/ ReadChunk
    \/ VerifyShaHash
    \/ ReadFile
    \/ PrintDebugInfo
    \/ Return

Spec == Init /\ [][Next]_vars

\* The module's functions called with a build_info at hand.
FunctionsInit ==
    /\ Constructed
    /\ build_info \in BuildInfos
    /\ call = NoCall

FunctionsNext ==
    \/ CallPathCompile
    \/ CallTransform

FunctionsSpec == FunctionsInit /\ [][FunctionsNext]_vars

(* ------------------------------ claims --------------------------------- *)

Max(a, b) == IF a >= b THEN a ELSE b

Downloads == {"DownloadFile", "DownloadFileTemp"}

\* _OpenStream has run at least one cycle and its frame is still there.
InCycles == attempt > 0

\* The cycle that just ended obtained a response.
GotStream == cur.first = "stream" \/ cur.second = "stream"

\* _OpenStream has returned file_stream to its caller.
Returned == pc = "length" \/ (pc = "done" /\ result = "True")

\* C1: in _OpenStream redirects do not consume the retry budget: as long as
\* every cycle obtained a response (302 each time, no cycle failed), the
\* cycles do not count as failed attempts, so no 'Failed to reach'
\* DownloadError is raised, whatever max_retries is.
C1_RedirectsKeepBudget ==
    (InCycles /\ pc # "machine" /\ counts.failed = 0)
        => err # "Failed to reach file download"

\* C2: when every cycle of _OpenStream fails with a transport error and
\* max_retries = m >= 0, each failed cycle before the max(1, m)-th is followed
\* by exactly one sleep and a further cycle, and the max(1, m)-th raises
\* DownloadError, after max(1, m) - 1 sleeps, which ends the operation.
C2_ExhaustionAfterMaxCycles ==
    (InCycles /\ pc # "machine" /\ max_retries >= 0 /\ counts.transport = attempt)
        => IF attempt < max_retries
           THEN pc = "cycle" /\ result = "none" /\ counts.sleeps = attempt
           ELSE /\ pc = "done"
                /\ result = Raised(op)
                /\ err = "Failed to reach file download"
                /\ attempt = Max(1, max_retries)
                /\ counts.sleeps = Max(1, max_retries) - 1
                /\ counts.slept = 20 * (Max(1, max_retries) - 1)
                /\ counts.net = 2 * attempt

C2_Witness ==
    /\ pc = "done"
    /\ err = "Failed to reach file download"
    /\ counts.transport = attempt
    /\ max_retries = 2
    /\ attempt = 2
    /\ counts.sleeps = 1

\* C3: with a negative max_retries _OpenStream never fails with the
\* retry-exhaustion DownloadError: a cycle that obtained no response is
\* followed by a sleep and a further cycle, however many have failed, and a
\* cycle that obtains a response with an acceptable status code returns it.
C3_UnlimitedNeverExhausts ==
    (InCycles /\ pc # "machine" /\ max_retries < 0)
        => /\ err # "Failed to reach file download"
           /\ ~GotStream => (pc = "cycle" /\ result = "none")
           /\ pc = "cycle" => counts.sleeps = attempt
           /\ (GotStream /\ InList(file_stream.code, Acceptable(status_codes)))
                  => Returned

C3_Witness ==
    /\ pc = "cycle"
    /\ max_retries < 0
    /\ attempt = 2
    /\ counts.failed = 2
    /\ counts.sleeps = 2

\* C4: _OpenStream called with a url that, trimmed, has no host component
\* raises DownloadError before its loop: no urlopen call, no sleep, no cycle,
\* for every max_retries, negative included; a url that has a host once
\* trimmed is not refused.
C4_NoHostFailsBeforeLoop ==
    /\ (op = "CheckUrl" /\ attempt = 0)
           => (NetLoc(Strip(arg_url)) = <<>>) = (err = "Invalid remote server URL")
    /\ (op # "none" /\ attempt = 0 /\ st_attempt = 0 /\ pc = "cycle")
           => NetLoc(url) # <<>>
    /\ err = "Invalid remote server URL"
           => /\ pc = "done"
              /\ result = Raised(op)
              /\ NetLoc(url) = <<>>
              /\ attempt = 0
              /\ counts.net = 0
              /\ counts.sleeps = 0
              /\ handles = <<>>

C4_Witness ==
    /\ err = "Invalid remote server URL"
    /\ max_retries < 0
    /\ counts.net = 0
    /\ arg_url = UrlNoHost

\* C5: a cycle of _OpenStream whose file_stream has a status code neither
\* acceptable nor 302 raises DownloadError in that cycle without invoking the
\* retry policy, whatever budget remains; an acceptable status code is
\* returned, without invoking the retry policy, even when it is 302.
C5_UnexpectedCodeRaisesAtOnce ==
    (InCycles /\ pc # "machine" /\ file_stream.open)
        => /\ InList(file_stream.code, Acceptable(status_codes))
                  => (Returned /\ cur.policy = "none")
           /\ (/\ ~InList(file_stream.code, Acceptable(status_codes))
               /\ file_stream.code \notin REDIRECT_CODES)
                  => /\ pc = "done"
                     /\ result = Raised(op)
                     /\ err = "Invalid return code"
                     /\ cur.policy = "none"
                     /\ counts.sleeps = attempt - 1

C5_Witness ==
    /\ err = "Invalid return code"
    /\ file_stream.code = 404
    /\ attempt = 1
    /\ max_retries = 2
    /\ counts.sleeps = 0

\* _StreamToDisk reached the empty read that ends its loop: the destination
\* was opened and no exception left the try block.
Drained == pc = "done" /\ dest.touched /\ err # "Socket error during download"

C7_EveryStreamClosedOnce ==
    pc = "done" => \A i \in 1..Len(handles) : handles[i] = 1

\* C8: DownloadFile with a locator classified local calls file_util.Copy
\* exactly once and opens no network stream, does not consult the
\* access-control collaborator and does not sleep; it ends at once, and a
\* copy failure surfaces as DownloadError.
C8_LocalLocatorIsCopied ==
    (op = "DownloadFile" /\ IsLocal(arg_url))
        => /\ pc = "done"
           /\ counts.copies = 1
           /\ counts.net = 0
           /\ counts.bc_checks = 0
           /\ counts.sleeps = 0
           /\ attempt = 0
           /\ handles = <<>>
           /\ \/ result = "None" /\ err = "none"
              \/ result = "DownloadError" /\ err = "file_util.Error"

C8_Witness ==
    /\ op = "DownloadFile"
    /\ arg_url = UrlDrive
    /\ counts.copies = 1
    /\ result = "DownloadError"

\* The download operation is at the point where _OpenStream has been entered
\* and no cycle has started.
AtOpenStreamEntry ==
    op \in Downloads /\ attempt = 0 /\ st_attempt = 0 /\ counts.copies = 0
        /\ err # "BCError"

\* C9 as claimed: when CheckBeyondCorp() is true the download operations open
\* the stream with max_retries = -1 and with the url replaced by GetSignedUrl
\* of the url with the configured server prefix stripped.
C9_EnabledAlwaysSigns ==
    (AtOpenStreamEntry /\ bc)
        => /\ max_retries = -1
           /\ url = Strip(GetSignedUrl(StripConfigServer(arg_url)))

\* C9 as amended: when CheckBeyondCorp() is true the download operations open
\* the stream with max_retries = -1, whatever the caller passed; the url is
\* replaced by GetSignedUrl of the url with the configured server prefix
\* stripped when FLAGS.use_signed_url is set and is the caller's url when it
\* is not; a signing failure raises DownloadError before any urlopen call.
C9_EnabledSignsWhenFlagged ==
    /\ (op \in Downloads /\ bc /\ err # "BCError") => max_retries = -1
    /\ (AtOpenStreamEntry /\ bc)
           => url = Strip(IF use_signed_url
                          THEN GetSignedUrl(StripConfigServer(arg_url))
                          ELSE arg_url)
    /\ err = "BCError"
           => /\ op \in Downloads
              /\ bc
              /\ use_signed_url
              /\ pc = "done"
              /\ result = "DownloadError"
              /\ counts.net = 0
              /\ attempt = 0

C9_Witness ==
    /\ AtOpenStreamEntry
    /\ bc
    /\ use_signed_url
    /\ pc = "cycle"
    /\ arg_url = UrlServer
    /\ url = <<"h","t","t","p","s",":","/","/","g","/","f">>
    /\ max_retries = -1

\* C10: DownloadError is the only error that escapes DownloadFile and
\* DownloadFileTemp: whatever makes the operation fail, an unparseable
\* Content-Length included, it ends with DownloadError or without error.
C10_OnlyDownloadErrorEscapes ==
    (pc = "done" /\ op \in Downloads) => result \in {"None", "DownloadError"}

\* C11: the debug-info mapping of a downloader instance only grows: no step
\* of DownloadFile, DownloadFileTemp, CheckUrl, VerifyShaHash or
\* PrintDebugInfo, and no return from them, removes a key once recorded;
\* PrintDebugInfo and VerifyShaHash leave the mapping as it is; a download
\* that succeeds keeps the entries an earlier failed one recorded.
C11_DebugInfoOnlyGrows ==
    [][ /\ debug_info \subseteq debug_info'
        /\ op' \in {"PrintDebugInfo", "VerifyShaHash"} => debug_info' = debug_info
      ]_vars

\* A download has succeeded on an instance that still holds the entries of an
\* earlier socket error.
C11_Witness ==
    /\ pc = "done"
    /\ op \in Downloads
    /\ result = "None"
    /\ "socket_error" \in debug_info

\* C12: VerifyShaHash never raises and never changes downloader state: it
\* ends with True or False, with True exactly when the file was read to its
\* end without error and the hex digest of its whole content, fed to the hash
\* chunk by chunk, equals expected lower-cased; a mismatch gives False, and so
\* does a file that cannot be opened or read.
C12_VerifyShaHashCompares ==
    [][ op' = "VerifyShaHash"
          => /\ debug_info' = debug_info
             /\ default_show_progress' = default_show_progress
             /\ dest' = dest
             /\ pc' = "done"
                  => /\ result' \in {"True", "False"}
                     /\ (result' = "True")
                          = (/\ ~verify'.ioerror
                             /\ Sha256Hex(verify'.content)
                                  = LowerText(verify'.expected))
      ]_vars

\* VerifyShaHash returned True for a two-byte file read in two chunks whose
\* digest was given in upper case.
C12_Witness ==
    /\ pc = "done"
    /\ op = "VerifyShaHash"
    /\ result = "True"
    /\ verify.content = <<0, 1>>
    /\ verify.chunks = 2
    /\ verify.expected = <<"C","1">>

\* No two slashes in a row in s.
NoDoubleSlash(s) == \A i \in 1..(Len(s) - 1) : ~(s[i] = "/" /\ s[i + 1] = "/")

\* C13: PathCompile joins the base, the sub-path segments and the file name
\* with exactly one slash between components, and its value has no trailing
\* slash when no file name is given, whatever the base, the segments (empty,
\* only slashes, or with slashes of their own) and the file name: the value
\* is the base without its trailing slashes followed by text that nowhere has
\* two slashes in a row, and without a file name it does not end in a slash.
C13_SingleSlashesNoTrailing ==
    call.fn = "PathCompile"
        => LET b == RStripSlash(IF Truthy(call.base) THEN call.base.text
                                ELSE build_info.release)
           IN  /\ StartsWith(call.value, b)
               /\ NoDoubleSlash(Drop(call.value, Len(b)))
               /\ ~Truthy(call.file_name)
                    => (call.value = <<>> \/ call.value[Len(call.value)] # "/")

\* The template read once from left to right: an escaped marker becomes the
\* marker, an unescaped '#' becomes release, an unescaped '@' becomes binary,
\* and nothing that was put in is looked at again.
RECURSIVE ExpandOnce(_, _, _, _)
ExpandOnce(s, i, release, binary) ==
    IF i > Len(s) THEN <<>>
    ELSE IF s[i] = "\\" /\ i < Len(s) /\ s[i + 1] \in {"#", "@"}
         THEN <<s[i + 1]>> \o ExpandOnce(s, i + 2, release, binary)
         ELSE (CASE s[i] = "#" -> release
                 [] s[i] = "@" -> binary
                 [] OTHER -> <<s[i]>>)
                  \o ExpandOnce(s, i + 1, release, binary)

\* C14: Transform replaces every unescaped '#' of the template with the
\* release location (taken here as the code compiles it, PathCompile of the
\* build_info) followed by one separator and every unescaped '@' with
\* str(BinaryPath()), turns '\#' and '\@' into the bare character without
\* expanding it, and expands nothing that an expansion or an unescaping
\* produced.
C14_TransformExpandsOnce ==
    call.fn = "Transform"
        => call.value = ExpandOnce(call.string, 1,
                                   PathCompile(build_info, None, None) \o <<"/">>,
                                   build_info.binary)

\* A cycle of _OpenStream has just ended.
CycleEnded == InCycles /\ pc # "machine"

\* C15: within one cycle of _OpenStream the machine-context urlopen is made
\* if and only if the default-context urlopen raised URLError that is not
\* HTTPError; a cycle makes at most two urlopen calls; and the retry policy is
\* invoked for a cycle only when the cycle obtained no stream.
C15_SubAttemptAndPolicy ==
    /\ InCycles => (cur.second # "none" \/ pc = "machine") = (cur.first = "URLError")
    /\ InCycles => counts.net <= 2 * attempt
    /\ (CycleEnded /\ cur.policy = "invoked") => ~GotStream

\* Every cycle of _OpenStream so far was answered 302, and 302 is not a
\* status code the caller accepts.
OnlyRedirects ==
    /\ CycleEnded
    /\ counts.failed = 0
    /\ file_stream.open
    /\ file_stream.code \in REDIRECT_CODES
    /\ ~InList(file_stream.code, Acceptable(status_codes))

\* C16: redirect-following in _OpenStream has no bound of its own and is
\* eager: as long as every request is answered 302, _OpenStream neither
\* returns nor raises, whatever max_retries is, and it has not slept.
C16_RedirectsUnboundedAndEager ==
    OnlyRedirects => (pc = "cycle" /\ result = "none" /\ counts.sleeps = 0)

\* C17: the retry of a missing Content-Length in _StreamToDisk follows the
\* request's budget: a download called with max_retries = m >= 1 raises
\* 'Failed to reach server URL' after exactly m attempts, and one whose
\* budget is unlimited (negative max_retries, as under access control) never
\* raises it.
C17_LengthRetryFollowsRequest ==
    (op \in Downloads /\ err = "Failed to reach server URL")
        => /\ max_retries >= 0
           /\ max_retries >= 1 => st_attempt = max_retries

\* _StreamToDisk failed to open the destination: it has the length, the file
\* was never opened, and the operation is over.
OpenFailed ==
    /\ pc = "done"
    /\ op \in Downloads
    /\ st_attempt > 0
    /\ file_stream.header = "present"
    /\ ParseInt(file_stream.clen).ok
    /\ ~dest.touched

\* C18: in _StreamToDisk the causes of failure stay apart: a socket error
\* while the stream is read stores debug info with socket_error and raises
\* 'Socket error during download'; a destination that cannot be opened for
\* writing raises 'File location could not be opened for writing' and
\* records no socket_error.
C18_FailureCausesDistinguishable ==
    /\ (pc = "done" /\ dest.touched /\ err = "Socket error during download")
           => {"socket_error", "current_time"} \subseteq debug_info
    /\ OpenFailed => err = "File location could not be opened for writing"

\* C19: show_progress of DownloadFile / DownloadFileTemp overrides the
\* instance default only when the caller passes it: a call that does not pass
\* it reports progress for every chunk written on an instance constructed
\* with show_progress=True and for none on one constructed with False.
C19_DefaultProgressWhenOmitted ==
    (op \in Downloads /\ show_progress = "omitted" /\ st_attempt > 0)
        => counts.reports = (IF default_show_progress THEN counts.reads ELSE 0)

\* The errors a remote download raises before _StreamToDisk opens the
\* destination.
BeforeTransfer ==
    { "Invalid remote server URL", "BCError", "Failed to reach file download",
      "Invalid return code", "Failed to reach server URL" }

\* C20: a remote DownloadFile that fails before the transfer starts leaves the
\* destination untouched: the file is created, truncated or written only
\* after a stream with an acceptable status code and a readable
\* Content-Length has been obtained.
C20_DestinationUntouchedBeforeTransfer ==
    (op = "DownloadFile" /\ counts.copies = 0)
        => /\ err \in BeforeTransfer => dest = NoFile
           /\ result = "ValueError" => dest = NoFile
           /\ dest # NoFile
                => /\ file_stream.open
                   /\ InList(file_stream.code, Acceptable(<<>>))
                   /\ file_stream.header = "present"
                   /\ ParseInt(file_stream.clen).ok
                   /\ total_size = ParseInt(file_stream.clen).val

\* DownloadFile gave up on a stream without Content-Length and the
\* destination does not exist.
C20_Witness ==
    /\ op = "DownloadFile"
    /\ pc = "done"
    /\ err = "Failed to reach server URL"
    /\ st_attempt = STREAM_MAX_RETRIES
    /\ dest = NoFile

====
